---- MODULE Spec2Model ----
(***************************************************************************)
(* A model of pixelart-to-bin: the binary container codec                  *)
(* (src/utils/add_metadata.py, read back by src/test/test_bin.py) and the  *)
(* sequence assembler (src/generate/make_sequence.py).                     *)
(*                                                                         *)
(* Python floats are IEEE-754 binary64.  The assembler converts durations  *)
(* to frame counts in float arithmetic, so the model carries an exact      *)
(* binary64 arithmetic: a float is a record [neg, m, e] of value           *)
(* (-1)^neg * m * 2^e, m an arbitrary-size natural number kept as a        *)
(* little-endian sequence of limbs below LimbBase, and every operation     *)
(* rounds its exact result to 53 significant bits, ties to even.           *)
(***************************************************************************)
EXTENDS Integers, Sequences, FiniteSets, TLC

(***************************************************************************)
(* Natural numbers of arbitrary size (Python's int, and the significands   *)
(* of floats).  <<>> is zero; the most significant limb is never zero.     *)
(***************************************************************************)
LimbBits == 15

LimbBase == 32768

\* 2^k for k in 0..30
Pow2(k) ==
  <<1, 2, 4, 8, 16, 32, 64, 128, 256, 512, 1024, 2048, 4096, 8192, 16384, 32768,
    65536, 131072, 262144, 524288, 1048576, 2097152, 4194304, 8388608, 16777216,
    33554432, 67108864, 134217728, 268435456, 536870912, 1073741824>>[k + 1]

RECURSIVE BFromInt(_)
BFromInt(n) == IF n = 0 THEN <<>> ELSE <<n % LimbBase>> \o BFromInt(n \div LimbBase)

RECURSIVE BToInt(_)
BToInt(a) == IF a = <<>> THEN 0 ELSE Head(a) + LimbBase * BToInt(Tail(a))

\* a without its zero limbs at the top
BTrim(a) ==
  IF \A i \in 1..Len(a) : a[i] = 0 THEN <<>>
  ELSE SubSeq(a, 1, CHOOSE i \in 1..Len(a) :
                      a[i] # 0 /\ \A j \in (i + 1)..Len(a) : a[j] = 0)

\* -1, 0, 1 as a < b, a = b, a > b: the top limb that differs decides
BCmp(a, b) ==
  IF Len(a) > Len(b) THEN 1
  ELSE IF Len(a) < Len(b) THEN -1
  ELSE IF a = b THEN 0
  ELSE LET i == CHOOSE k \in 1..Len(a) :
                  a[k] # b[k] /\ \A j \in (k + 1)..Len(a) : a[j] = b[j]
       IN  IF a[i] > b[i] THEN 1 ELSE -1

RECURSIVE BAddC(_, _, _)
BAddC(a, b, c) ==
  IF a = <<>> /\ b = <<>> THEN (IF c = 0 THEN <<>> ELSE <<c>>)
  ELSE LET x == IF a = <<>> THEN 0 ELSE Head(a)
           y == IF b = <<>> THEN 0 ELSE Head(b)
           s == x + y + c
       IN  <<s % LimbBase>>
             \o BAddC(IF a = <<>> THEN <<>> ELSE Tail(a),
                      IF b = <<>> THEN <<>> ELSE Tail(b), s \div LimbBase)

BAdd(a, b) == BAddC(a, b, 0)

RECURSIVE BSubC(_, _, _)
BSubC(a, b, c) ==
  IF a = <<>> THEN <<>>
  ELSE LET y == IF b = <<>> THEN 0 ELSE Head(b)
           d == Head(a) - y - c
       IN  <<IF d < 0 THEN d + LimbBase ELSE d>>
             \o BSubC(Tail(a), IF b = <<>> THEN <<>> ELSE Tail(b),
                      IF d < 0 THEN 1 ELSE 0)

\* a - b for a >= b
BSub(a, b) == BTrim(BSubC(a, b, 0))

RECURSIVE BMulSmallC(_, _, _)
BMulSmallC(a, k, c) ==
  IF a = <<>> THEN (IF c = 0 THEN <<>> ELSE <<c>>)
  ELSE LET p == Head(a) * k + c
       IN  <<p % LimbBase>> \o BMulSmallC(Tail(a), k, p \div LimbBase)

\* a * k for 0 <= k < LimbBase
BMulSmall(a, k) == BTrim(BMulSmallC(a, k, 0))

RECURSIVE BMul(_, _)
BMul(a, b) ==
  IF b = <<>> \/ a = <<>> THEN <<>>
  ELSE BAdd(BMulSmall(a, Head(b)),
            LET r == BMul(a, Tail(b)) IN IF r = <<>> THEN <<>> ELSE <<0>> \o r)

\* a * 2^s for 0 <= s < LimbBits: limb i takes the low bits of a[i] and the
\* high bits of a[i-1]
BShlBits(a, s) ==
  BTrim([i \in 1..(Len(a) + 1) |->
           (IF i <= Len(a) THEN (a[i] % Pow2(LimbBits - s)) * Pow2(s) ELSE 0)
             + (IF i > 1 THEN a[i - 1] \div Pow2(LimbBits - s) ELSE 0)])

\* a * 2^k
BShl(a, k) ==
  IF a = <<>> THEN <<>>
  ELSE [i \in 1..(k \div LimbBits) |-> 0] \o BShlBits(a, k % LimbBits)

\* a \div 2^s for 0 <= s < LimbBits: limb i takes the high bits of a[i] and
\* the low bits of a[i+1]
BShrBits(a, s) ==
  BTrim([i \in 1..Len(a) |->
           (a[i] \div Pow2(s))
             + (IF i < Len(a) THEN (a[i + 1] % Pow2(s)) * Pow2(LimbBits - s) ELSE 0)])

\* a \div 2^k
BShr(a, k) ==
  IF Len(a) <= k \div LimbBits THEN <<>>
  ELSE BShrBits(SubSeq(a, (k \div LimbBits) + 1, Len(a)), k % LimbBits)

\* the number of bits of n, 0 <= n < 2^30
IntBitLen(n) == IF n = 0 THEN 0 ELSE CHOOSE k \in 1..30 : Pow2(k - 1) <= n /\ n < Pow2(k)

BBitLen(a) == IF a = <<>> THEN 0 ELSE LimbBits * (Len(a) - 1) + IntBitLen(a[Len(a)])

BOdd(a) == a # <<>> /\ Head(a) % 2 = 1

\* the digit q and the remainder t - q * b, p being q * b: q is lowered
\* until q * b fits under t
RECURSIVE BDivFit(_, _, _, _)
BDivFit(t, b, q, p) ==
  IF BCmp(p, t) <= 0 THEN <<q, BSub(t, p)>> ELSE BDivFit(t, b, q - 1, BSub(p, b))

\* the quotient of t's two top limbs (those at b's top limb and above) by
\* b's top limb, at most LimbBase - 1
BDivGuess(t, b) ==
  LET u == (IF Len(t) > Len(b) THEN t[Len(b) + 1] * LimbBase ELSE 0)
             + (IF Len(t) >= Len(b) THEN t[Len(b)] ELSE 0)
  IN  IF u \div b[Len(b)] >= LimbBase THEN LimbBase - 1 ELSE u \div b[Len(b)]

BDivFromGuess(t, b, q) == BDivFit(t, b, q, BMulSmall(b, q))

\* <<t \div b, t % b>> for t < b * LimbBase and b's top limb at least
\* LimbBase / 2: the guess is the digit or exceeds it by at most 2
BDivDigit(t, b) == BDivFromGuess(t, b, BDivGuess(t, b))

\* st is <<the limbs of a left, the quotient of the limbs taken, their
\* remainder>>; d the <<digit, remainder>> of the next limb
BDivPush(st, d) == <<st[1] - 1, <<d[1]>> \o st[2], d[2]>>

BDivStep(a, b, st) == BDivPush(st, BDivDigit(BTrim(<<a[st[1]]>> \o st[3]), b))

\* long division, one limb of a per step, from the top
RECURSIVE BDivModAt(_, _, _)
BDivModAt(a, b, st) ==
  IF st[1] = 0 THEN <<BTrim(st[2]), st[3]>>
  ELSE BDivModAt(a, b, BDivStep(a, b, st))

BDivModLimbs(a, b) == BDivModAt(a, b, <<Len(a), <<>>, <<>>>>)

BDivUnshift(qr, sh) == <<qr[1], BShr(qr[2], sh)>>

BDivModShifted(a, b, sh) == BDivUnshift(BDivModLimbs(BShl(a, sh), BShl(b, sh)), sh)

\* <<a \div b, a % b>> for b > 0: both are shifted until b's top limb is at
\* least LimbBase / 2, which leaves the quotient and shifts the remainder
BDivMod(a, b) == BDivModShifted(a, b, LimbBits - IntBitLen(b[Len(b)]))

\* a % 2^k
BLowBits(a, k) == BSub(a, BShl(BShr(a, k), k))

(***************************************************************************)
(* binary64.  The exponent range is never left by the values of this       *)
(* program (all between 2^-60 and 2^20), so there are no subnormals,       *)
(* infinities or NaNs to model.                                            *)
(***************************************************************************)
MantBits == 53

\* q * 2^e rounded up or not: c compares the bits dropped below q with one
\* half (-1, 0, 1), sticky says that more was dropped below those
FRoundUp(neg, q, e, c, sticky) ==
  [neg |-> neg,
   m   |-> IF c > 0 \/ (c = 0 /\ (sticky \/ BOdd(q))) THEN BAdd(q, <<1>>) ELSE q,
   e   |-> e]

FRoundDrop(neg, m, e, sticky, drop) ==
  FRoundUp(neg, BShr(m, drop), e + drop,
           BCmp(BLowBits(m, drop), BShl(<<1>>, drop - 1)), sticky)

\* the float nearest to m * 2^e (m exact except for a set sticky bit: the
\* exact value then lies strictly between m * 2^e and (m+1) * 2^e)
FRound(neg, m, e, sticky) ==
  IF BBitLen(m) <= MantBits THEN [neg |-> neg, m |-> m, e |-> e]
  ELSE FRoundDrop(neg, m, e, sticky, BBitLen(m) - MantBits)

\* float(n) for an int n, exact below 2^53
FFromInt(n) ==
  IF n < 0 THEN [neg |-> TRUE, m |-> BFromInt(-n), e |-> 0]
  ELSE [neg |-> FALSE, m |-> BFromInt(n), e |-> 0]

FIsZero(x) == x.m = <<>>

\* x > 0
FPositive(x) == ~x.neg /\ ~FIsZero(x)

Max(a, b) == IF a > b THEN a ELSE b

Min(a, b) == IF a < b THEN a ELSE b

FDivRound(neg, qr, e) == FRound(neg, qr[1], e, qr[2] # <<>>)

FDivShifted(x, y, s) ==
  FDivRound(x.neg # y.neg, BDivMod(BShl(x.m, s), y.m), x.e - s - y.e)

\* x / y, y # 0: the quotient is taken to at least MantBits + 2 bits, its
\* remainder is the sticky bit
FDiv(x, y) ==
  IF FIsZero(x) THEN [neg |-> FALSE, m |-> <<>>, e |-> 0]
  ELSE FDivShifted(x, y, Max(0, MantBits + 2 + BBitLen(y.m) - BBitLen(x.m)))

\* x * y
FMul(x, y) == FRound(x.neg # y.neg, BMul(x.m, y.m), x.e + y.e, FALSE)

\* a * 2^e - b * 2^e
FSubAligned(a, b, e) ==
  IF BCmp(a, b) >= 0 THEN FRound(FALSE, BSub(a, b), e, FALSE)
  ELSE FRound(TRUE, BSub(b, a), e, FALSE)

\* x - y for x >= 0, y >= 0
FSub(x, y) ==
  FSubAligned(BShl(x.m, x.e - Min(x.e, y.e)), BShl(y.m, y.e - Min(x.e, y.e)),
              Min(x.e, y.e))

\* int(x): truncation toward zero
FInt(x) ==
  (IF x.neg THEN -1 ELSE 1)
    * BToInt(IF x.e >= 0 THEN BShl(x.m, x.e) ELSE BShr(x.m, -x.e))

(***************************************************************************)
(* Python values.  A call either returns or raises: [err |-> "none",       *)
(* val |-> v] or [err |-> <exception class>, val |-> <<>>].  Ints that can  *)
(* exceed 31 bits (fps, save_time, end_marker, unpacked fields) are        *)
(* arbitrary-size naturals; lengths and coordinates are plain integers.    *)
(***************************************************************************)
Return(v) == [err |-> "none", val |-> v]

Raise(e) == [err |-> e, val |-> <<>>]

RECURSIVE Concat(_)
Concat(ss) == IF ss = <<>> THEN <<>> ELSE Head(ss) \o Concat(Tail(ss))

\* the low n bytes of b, least significant first
RECURSIVE PackLE(_, _)
PackLE(b, n) ==
  IF n = 0 THEN <<>>
  ELSE <<IF b = <<>> THEN 0 ELSE Head(b) % 256>> \o PackLE(BShr(b, 8), n - 1)

\* the natural number a little-endian byte string denotes
RECURSIVE UnpackLE(_)
UnpackLE(bs) ==
  IF bs = <<>> THEN <<>>
  ELSE BAdd(BFromInt(Head(bs)), BMulSmall(UnpackLE(Tail(bs)), 256))

\* struct.pack of one unsigned field of n bytes: struct.error when out of range
StructPackField(b, n) ==
  IF BBitLen(b) > 8 * n THEN Raise("struct.error") ELSE Return(PackLE(b, n))

\* 0xDEADBEEF = 0xDEAD * 2^16 + 0xBEEF
END_MARKER == BAdd(BShl(BFromInt(57005), 16), BFromInt(48879))

\* column by column instead of row by row
flatten_rgb_matrix_by_column(matrix) ==
  Concat(Concat([x \in 1..Len(matrix[1]) |-> [y \in 1..Len(matrix) |-> matrix[y][x]]]))

flatten_rgb_matrix(matrix) == Concat(Concat(matrix))

\* bytes(list): ValueError unless every element is in range(256)
bytes(list) ==
  IF \A k \in 1..Len(list) : list[k] \in 0..255 THEN Return(list)
  ELSE Raise("ValueError")

\* width packed before height
add_header_width_first(total_frames, height, width, fps) ==
  LET f == <<StructPackField(BFromInt(total_frames), 4),
             StructPackField(BFromInt(width), 4),
             StructPackField(BFromInt(height), 4),
             StructPackField(fps, 4)>>
  IN  IF \E k \in 1..4 : f[k].err # "none" THEN Raise("struct.error")
      ELSE Return(f[1].val \o f[2].val \o f[3].val \o f[4].val)

\* struct.pack('<IIII', ...): 4 + 4 + 4 + 4 bytes, no padding
add_header(total_frames, height, width, fps) ==
  LET f == <<StructPackField(BFromInt(total_frames), 4),
             StructPackField(BFromInt(height), 4),
             StructPackField(BFromInt(width), 4),
             StructPackField(fps, 4)>>
  IN  IF \E k \in 1..4 : f[k].err # "none" THEN Raise("struct.error")
      ELSE Return(f[1].val \o f[2].val \o f[3].val \o f[4].val)

\* '<QII' instead of '<IQI': save_time first
add_trailer_time_first(total_frames, now, end_marker) ==
  LET f == <<StructPackField(now, 8),
             StructPackField(BFromInt(total_frames), 4),
             StructPackField(end_marker, 4)>>
  IN  IF \E k \in 1..3 : f[k].err # "none" THEN Raise("struct.error")
      ELSE Return(f[1].val \o f[2].val \o f[3].val)

\* '<IIQ' instead of '<IQI': save_time last
add_trailer_time_last(total_frames, now, end_marker) ==
  LET f == <<StructPackField(BFromInt(total_frames), 4),
             StructPackField(end_marker, 4),
             StructPackField(now, 8)>>
  IN  IF \E k \in 1..3 : f[k].err # "none" THEN Raise("struct.error")
      ELSE Return(f[1].val \o f[2].val \o f[3].val)

\* struct.pack('<IQI', ...): 4 + 8 + 4 bytes; now is int(time.time())
add_trailer(total_frames, now, end_marker) ==
  LET f == <<StructPackField(BFromInt(total_frames), 4),
             StructPackField(now, 8),
             StructPackField(end_marker, 4)>>
  IN  IF \E k \in 1..3 : f[k].err # "none" THEN Raise("struct.error")
      ELSE Return(f[1].val \o f[2].val \o f[3].val)

\* add_metadata without its check for an empty list: a container of no frames
add_metadata_empty_container(matrices, fps_arg, now) ==
  IF matrices = <<>>
  THEN Return(add_header(0, 0, 0, fps_arg).val \o add_trailer(0, now, END_MARKER).val)
  ELSE Raise("IndexError")

add_metadata(matrices, fps_arg, now) ==
  IF matrices = <<>> THEN Raise("ValueError")
  ELSE IF matrices[1] = <<>> THEN Raise("IndexError")
  ELSE
    LET total_frames == Len(matrices)
        height  == Len(matrices[1])
        width   == Len(matrices[1][1])
        header  == add_header(total_frames, height, width, fps_arg)
        packed  == [k \in 1..total_frames |-> bytes(flatten_rgb_matrix(matrices[k]))]
        trailer == add_trailer(total_frames, now, END_MARKER)
    IN  IF header.err # "none" THEN header
        ELSE IF \E k \in 1..total_frames : packed[k].err # "none" THEN Raise("ValueError")
        ELSE IF trailer.err # "none" THEN trailer
        ELSE Return(header.val \o Concat([k \in 1..total_frames |-> packed[k].val])
                      \o trailer.val)

HEADER_SIZE == 16

TRAILER_SIZE == 16

\* f.seek(offset); f.read(n) on a file of the given bytes
FileRead(data, offset, n) ==
  IF offset >= Len(data) THEN <<>>
  ELSE SubSeq(data, offset + 1, IF offset + n > Len(data) THEN Len(data) ELSE offset + n)

\* struct.unpack('<IIII', header_data)
read_bin_header(data) ==
  LET header_data == FileRead(data, 0, HEADER_SIZE)
  IN  IF Len(header_data) # HEADER_SIZE THEN Raise("ValueError")
      ELSE Return([k \in 1..4 |-> UnpackLE(SubSeq(header_data, 4 * k - 3, 4 * k))])

\* the rows of pixels in frame_size bytes
FrameMatrix(frame_data, height, width) ==
  [y \in 1..height |-> [x \in 1..width |->
     LET byte_idx == ((y - 1) * width + (x - 1)) * 3
     IN  <<frame_data[byte_idx + 1], frame_data[byte_idx + 2], frame_data[byte_idx + 3]>>]]

\* a reader that checks only the number of bytes it got
safe_read_frame_data_unchecked(data, frame_index, height, width) ==
  IF Len(FileRead(data, HEADER_SIZE + frame_index * height * width * 3, height * width * 3))
       # height * width * 3
  THEN Raise("ValueError")
  ELSE Return(FrameMatrix(FileRead(data, HEADER_SIZE + frame_index * height * width * 3,
                                   height * width * 3), height, width))

\* a reader that also rejects the frame that ends where the trailer starts
safe_read_frame_data_strict(data, frame_index, height, width) ==
  IF HEADER_SIZE + (frame_index + 1) * height * width * 3 >= Len(data) - TRAILER_SIZE
  THEN Raise("ValueError")
  ELSE safe_read_frame_data_unchecked(data, frame_index, height, width)

safe_read_frame_data(data, frame_index, height, width) ==
  LET frame_size == height * width * 3
      file_size  == Len(data)
      offset     == HEADER_SIZE + frame_index * frame_size
      frame_data == FileRead(data, offset, frame_size)
  IN  IF offset + frame_size > file_size - TRAILER_SIZE THEN Raise("ValueError")
      ELSE IF Len(frame_data) # frame_size THEN Raise("ValueError")
      ELSE Return([y \in 1..height |-> [x \in 1..width |->
             LET byte_idx == ((y - 1) * width + (x - 1)) * 3
             IN  <<frame_data[byte_idx + 1], frame_data[byte_idx + 2],
                   frame_data[byte_idx + 3]>>]])

\* f.seek(16 + frame_data_size); struct.unpack('<IQI', f.read(16))
read_bin_trailer(data, frame_data_size) ==
  LET trailer_data == FileRead(data, HEADER_SIZE + frame_data_size, TRAILER_SIZE)
  IN  IF Len(trailer_data) # TRAILER_SIZE THEN Raise("ValueError")
      ELSE Return(<<UnpackLE(SubSeq(trailer_data, 1, 4)),
                    UnpackLE(SubSeq(trailer_data, 5, 12)),
                    UnpackLE(SubSeq(trailer_data, 13, 16))>>)

\* cv2.cvtColor(frame_array, cv2.COLOR_RGB2BGR): every pixel's channels reversed
RGB2BGR(matrix) ==
  [y \in 1..Len(matrix) |-> [x \in 1..Len(matrix[y]) |->
     <<matrix[y][x][3], matrix[y][x][2], matrix[y][x][1]>>]]

\* what a function hands back on "return None"
ReturnNone == [err |-> "none", val |-> <<>>, none |-> TRUE]

\* the player's reader: available_frames is looked at only after a short read
read_frame_data(data, frame_index, height, width) ==
  LET frame_size == height * width * 3
      offset     == 16 + frame_index * frame_size
      frame_data == FileRead(data, offset, frame_size)
      file_size  == Len(data)
  IN  IF Len(frame_data) # frame_size
      THEN IF frame_index >= (file_size - 32) \div frame_size THEN ReturnNone
           ELSE Raise("ValueError")
      ELSE Return(RGB2BGR(FrameMatrix(frame_data, height, width)))

\* a player that advances whenever a frame is due, paused or not
Due_ignores_pause(is_paused, elapsed) == elapsed

\* not paused and (current_time - last_frame_time) >= frame_delay
Due(is_paused, elapsed) == ~is_paused /\ elapsed

\* an index that runs on past the last frame
NextIndex_no_wrap(index, frame_count) == index + 1

\* (frame_index + 1) % effective_frames
NextIndex(index, frame_count) == (index + 1) % frame_count

(***************************************************************************)
(* test_bin_file, the validation and inspection of a container file.  Its  *)
(* report has what it printed: each check as "yes" or "no", or "not        *)
(* reported" when the run ended before the check's line; the frames it     *)
(* saved as images; and the exception that ended the run, if any.          *)
(***************************************************************************)
NotReported == "not reported"

\* the mark printed for a check
Mark(ok) == IF ok THEN "yes" ELSE "no"

\* sample_indices = [0, 1, ..., 15]
SampleIndices == 0..15

\* a size check that accepts a file shorter than expected
SizeMatch_not_longer(expected_size, actual_size) == expected_size >= actual_size

\* expected_size == actual_size
SizeMatch(expected_size, actual_size) == expected_size = actual_size

\* an end marker check that leaves out the marker's last byte
MarkerValid_low_bytes(end_marker) == BLowBits(end_marker, 24) = BLowBits(END_MARKER, 24)

\* end_marker == 0xDEADBEEF
MarkerValid(end_marker) == end_marker = END_MARKER

\* the run ends in the except clause: "Error testing binary file"
Aborted(error, size_match, using) ==
  [error |-> error, size_match |-> size_match, frames_match |-> NotReported,
   marker_valid |-> NotReported, using |-> using, saved |-> {}, failed |-> {},
   verdict |-> NotReported]

\* for idx in sample_indices: if idx < effective_frames: safe_read_frame_data,
\* an exception of one frame being caught and printed
ExtractSamples(data, effective_frames, height, width, as_saved) ==
  {idx \in SampleIndices :
     /\ idx < effective_frames
     /\ (safe_read_frame_data(data, idx, height, width).err = "none") = as_saved}

\* the trailer's checks, the sample frames and the verdict
TrailerChecks(data, total_frames, height, width, size_ok, effective_frames, trailer) ==
  IF trailer.err # "none" THEN Aborted(trailer.err, Mark(size_ok), <<effective_frames>>)
  ELSE [error        |-> "none",
        size_match   |-> Mark(size_ok),
        frames_match |-> Mark(total_frames = trailer.val[1]),
        marker_valid |-> Mark(MarkerValid(trailer.val[3])),
        using        |-> <<effective_frames>>,
        saved        |-> ExtractSamples(data, effective_frames, BToInt(height),
                                        BToInt(width), TRUE),
        failed       |-> ExtractSamples(data, effective_frames, BToInt(height),
                                        BToInt(width), FALSE),
        verdict      |-> Mark(size_ok /\ total_frames = trailer.val[1]
                              /\ MarkerValid(trailer.val[3]))]

\* the size check, then actual_frames and effective_frames, then the trailer
SizeChecks(data, total_frames, height, width, frame_size, actual_size) ==
  IF frame_size = 0
  THEN Aborted("ZeroDivisionError",
               Mark(SizeMatch(16 + BToInt(total_frames) * frame_size + 16, actual_size)),
               <<>>)
  ELSE TrailerChecks(data, total_frames, height, width,
                     SizeMatch(16 + BToInt(total_frames) * frame_size + 16, actual_size),
                     Min(BToInt(total_frames), (actual_size - 32) \div frame_size),
                     read_bin_trailer(data, BToInt(total_frames) * frame_size))

\* the header is read and printed; total_frames / fps divides by its fps
HeaderChecks(data, h) ==
  IF h.err # "none" THEN Aborted(h.err, NotReported, <<>>)
  ELSE IF h.val[4] = BFromInt(0) THEN Aborted("ZeroDivisionError", NotReported, <<>>)
  ELSE SizeChecks(data, h.val[1], h.val[2], h.val[3],
                  BToInt(h.val[2]) * BToInt(h.val[3]) * 3, Len(data))

test_bin_file(data) == HeaderChecks(data, read_bin_header(data))

(***************************************************************************)
(* The frame lists handed to the encoder.  Every channel of every pixel    *)
(* of a list is a different byte, so a misplaced byte shows; the second    *)
(* seed makes the values wrap through 255 and 0.                           *)
(***************************************************************************)
MaxFrames == 2

MaxHeight == 2

MaxWidth == 2

Seeds == {0, 230}

TestFrame(seed, i, h, w) ==
  [y \in 1..h |-> [x \in 1..w |->
     [c \in 1..3 |-> (seed + 48 * (i - 1) + 12 * (y - 1) + 3 * (x - 1) + (c - 1)) % 256]]]

Shapes == (1..MaxHeight) \X (1..MaxWidth)

\* lists of frames of one shape
UniformLists ==
  {[i \in 1..n |-> TestFrame(seed, i, d[1], d[2])] :
     n \in 1..MaxFrames, d \in Shapes, seed \in Seeds}

\* lists whose last frame has another shape than the frames before it
MixedLists ==
  {[i \in 1..n |-> IF i < n THEN TestFrame(0, i, d[1], d[2])
                            ELSE TestFrame(0, i, d2[1], d2[2])] :
     n \in 2..MaxFrames, d \in Shapes, d2 \in Shapes} \ UniformLists

FrameLists == UniformLists \cup MixedLists \cup {<<>>}

SameShape(matrices) ==
  \A i \in 1..Len(matrices) :
     /\ Len(matrices[i]) = Len(matrices[1])
     /\ \A y \in 1..Len(matrices[i]) : Len(matrices[i][y]) = Len(matrices[1][1])

\* 2^32 - 1
U32_MAX == BSub(BShl(<<1>>, 32), <<1>>)

FpsValues == {BFromInt(1), BFromInt(5), U32_MAX}

\* int(time.time()): a present-day clock, and one past 2^32 seconds
Clocks == {BFromInt(1762000000), BAdd(BShl(<<1>>, 32), BFromInt(7))}

(***************************************************************************)
(* The sequence assembler, create_sequence_from_config.  config.json and   *)
(* the directory's images are its inputs: loop_count, loop_delay_ms,       *)
(* countdown_enabled and image_sequences (the images in sorted order).     *)
(***************************************************************************)
\* frame_duration = 0.2: the float nearest to 1/5
frame_duration == FDiv(FFromInt(1), FFromInt(5))

\* total_duration = 3600
total_duration == 3600

\* int(1 / frame_duration)
frames_per_second == FInt(FDiv(FFromInt(1), frame_duration))

\* [[[r, g, b] for _ in range(width)] for _ in range(height)]
SolidFrame(height, width, rgb) == [y \in 1..height |-> [x \in 1..width |-> rgb]]

\* for _ in range(n): frames.append(frame)
Repeat(frame, n) == [k \in 1..n |-> frame]

RED == <<255, 0, 0>>

YELLOW == <<255, 255, 0>>

GREEN == <<0, 255, 0>>

BLACK == <<0, 0, 0>>

\* fps frames of each of the four colours, in their order
CountdownBlocks(image_height, image_width, fps, colours) ==
  Repeat(SolidFrame(image_height, image_width, colours[1]), fps)
    \o Repeat(SolidFrame(image_height, image_width, colours[2]), fps)
    \o Repeat(SolidFrame(image_height, image_width, colours[3]), fps)
    \o Repeat(SolidFrame(image_height, image_width, colours[4]), fps)

\* green before yellow
create_countdown_frames_green_first(image_height, image_width) ==
  CountdownBlocks(image_height, image_width, frames_per_second,
                  <<RED, GREEN, YELLOW, BLACK>>)

\* create_countdown_frames(): fps = int(1 / frame_duration) frames of red,
\* of yellow, of green, of black
create_countdown_frames(image_height, image_width) ==
  CountdownBlocks(image_height, image_width, frames_per_second,
                  <<RED, YELLOW, GREEN, BLACK>>)

\* round(loop_delay_ms / 1000 * fps) instead of the truncated float quotient
delay_frame_count_rounded(loop_delay_ms) ==
  (loop_delay_ms * frames_per_second + 500) \div 1000

\* int((loop_delay_ms / 1000) / frame_duration)
delay_frame_count(loop_delay_ms) ==
  FInt(FDiv(FDiv(FFromInt(loop_delay_ms), FFromInt(1000)), frame_duration))

\* frame_idx never reset: the last image again once the images run out
FillStep_no_wrap(images, frame_idx) ==
  IF frame_idx < Len(images) THEN <<images[frame_idx + 1], frame_idx + 1>>
  ELSE <<images[Len(images)], frame_idx>>

\* one pass of the fill loop's body: <<the frame appended, frame_idx after>>
FillStep(images, frame_idx) ==
  IF frame_idx < Len(images) THEN <<images[frame_idx + 1], frame_idx + 1>>
  ELSE <<images[1], 1>>

\* for _ in range(remaining): <<the frames appended, frame_idx after>>; the
\* range is halved, the second half starting from the frame_idx of the first
RECURSIVE FillLoop(_, _, _)
FillLoop(images, remaining, frame_idx) ==
  IF remaining <= 0 THEN <<<<>>, frame_idx>>
  ELSE IF remaining = 1
    THEN <<<<FillStep(images, frame_idx)[1]>>, FillStep(images, frame_idx)[2]>>
  ELSE LET a == FillLoop(images, remaining \div 2, frame_idx)
           b == FillLoop(images, remaining - remaining \div 2, a[2])
       IN  <<a[1] \o b[1], b[2]>>

\* the fill loop: remaining frames taken from image_sequences, frame_idx wrapping
FillFrames(images, remaining, frame_idx) == FillLoop(images, remaining, frame_idx)[1]

\* black_frame appended n times
DelayBlock(image_height, image_width, n) ==
  Repeat(SolidFrame(image_height, image_width, BLACK), n)

\* int(total_duration / sequence_duration_per_loop), with
\* sequence_duration_per_loop = frames_per_loop * frame_duration
LoopsNeeded(frames_per_loop) ==
  FInt(FDiv(FFromInt(total_duration), FMul(FFromInt(frames_per_loop), frame_duration)))

\* one pass of the infinite branch's loop
InfiniteBody(images, loop_delay_ms, countdown, image_height, image_width, delay_frames_per_loop, loops, loop_idx) ==
  (IF countdown THEN create_countdown_frames(image_height, image_width) ELSE <<>>)
    \o images
    \o (IF loop_delay_ms > 0 /\ delay_frames_per_loop > 0 /\ images # <<>>
           /\ loop_idx < loops - 1
        THEN DelayBlock(image_height, image_width, delay_frames_per_loop)
        ELSE <<>>)

\* for loop_idx in range(lo, hi): the frames the passes append; the range is
\* halved rather than walked, so that 18000 passes nest 15 deep
RECURSIVE InfiniteRange(_, _, _, _, _, _, _, _, _)
InfiniteRange(images, loop_delay_ms, countdown, image_height, image_width, delay_frames_per_loop, loops, lo, hi) ==
  IF lo >= hi THEN <<>>
  ELSE IF hi = lo + 1
    THEN InfiniteBody(images, loop_delay_ms, countdown, image_height, image_width,
                      delay_frames_per_loop, loops, lo)
  ELSE InfiniteRange(images, loop_delay_ms, countdown, image_height, image_width,
                     delay_frames_per_loop, loops, lo, (lo + hi) \div 2)
         \o InfiniteRange(images, loop_delay_ms, countdown, image_height, image_width,
                          delay_frames_per_loop, loops, (lo + hi) \div 2, hi)

\* if remaining_time > 0: remaining_frames = int(remaining_time / frame_duration)
RemainingFrames(remaining_time) ==
  IF FPositive(remaining_time) THEN FInt(FDiv(remaining_time, frame_duration)) ELSE 0

\* total_duration - current_duration, with
\* current_duration = len(frames) * frame_duration
RemainingTime(frame_count) ==
  FSub(FFromInt(total_duration), FMul(FFromInt(frame_count), frame_duration))

\* the fill after the loop; looped is the frame list the loop left
InfiniteFill(images, delay_frames_per_loop, loops, looped) ==
  [delay  |-> delay_frames_per_loop,
   loops  |-> loops,
   looped |-> Len(looped),
   frames |-> looped \o FillFrames(images, RemainingFrames(RemainingTime(Len(looped))), 0)]

\* for loop_idx in range(loops_needed), then the fill
InfiniteFrames(images, loop_delay_ms, countdown, image_height, image_width, delay_frames_per_loop, loops) ==
  InfiniteFill(images, delay_frames_per_loop, loops,
               InfiniteRange(images, loop_delay_ms, countdown, image_height, image_width,
                             delay_frames_per_loop, loops, 0, loops))

\* frames_per_loop = countdown_frames_per_loop + len(image_sequences)
\*                     + delay_frames_per_loop, and loops_needed from it
InfiniteLoopWithDelay(images, loop_delay_ms, countdown, image_height, image_width, delay_frames_per_loop) ==
  InfiniteFrames(images, loop_delay_ms, countdown, image_height, image_width,
                 delay_frames_per_loop,
                 LoopsNeeded((IF countdown THEN 4 * frames_per_second ELSE 0)
                               + Len(images) + delay_frames_per_loop))

\* the branch loop_count == -1
InfiniteLoop(images, loop_delay_ms, countdown, image_height, image_width) ==
  InfiniteLoopWithDelay(images, loop_delay_ms, countdown, image_height, image_width,
                        IF loop_delay_ms > 0 THEN delay_frame_count(loop_delay_ms) ELSE 0)

\* if delay_frames > 0 and image_sequences: delay_frames black frames
FiniteDelay(images, image_height, image_width, delay_frames_arg) ==
  IF delay_frames_arg > 0 /\ images # <<>>
  THEN DelayBlock(image_height, image_width, delay_frames_arg)
  ELSE <<>>

\* a pass that stops one image short
FiniteBody_drops_last_image(images, loop_delay_ms, countdown, image_height, image_width) ==
  (IF countdown THEN create_countdown_frames(image_height, image_width) ELSE <<>>)
    \o SubSeq(images, 1, Len(images) - 1)

\* one pass of the finite branch's loop: the delay follows every pass
FiniteBody(images, loop_delay_ms, countdown, image_height, image_width) ==
  (IF countdown THEN create_countdown_frames(image_height, image_width) ELSE <<>>)
    \o images
    \o (IF loop_delay_ms > 0
        THEN FiniteDelay(images, image_height, image_width,
                         delay_frame_count(loop_delay_ms))
        ELSE <<>>)

\* for loop_idx in range(lo, hi), halved as in the infinite branch
RECURSIVE FiniteRange(_, _, _, _, _, _, _)
FiniteRange(images, loop_delay_ms, countdown, image_height, image_width, lo, hi) ==
  IF lo >= hi THEN <<>>
  ELSE IF hi = lo + 1
    THEN FiniteBody(images, loop_delay_ms, countdown, image_height, image_width)
  ELSE FiniteRange(images, loop_delay_ms, countdown, image_height, image_width,
                   lo, (lo + hi) \div 2)
         \o FiniteRange(images, loop_delay_ms, countdown, image_height, image_width,
                        (lo + hi) \div 2, hi)

FiniteFrames(delay_frames_arg, looped) ==
  [delay |-> delay_frames_arg, loops |-> -1, looped |-> Len(looped), frames |-> looped]

\* a finite branch that makes one pass before it tests the loop count
FiniteLoop_at_least_once(images, loop_count_arg, loop_delay_ms, countdown, image_height, image_width) ==
  FiniteFrames(0, FiniteRange(images, loop_delay_ms, countdown, image_height, image_width,
                              0, Max(1, loop_count_arg)))

\* the branch of a finite loop_count
FiniteLoop(images, loop_count_arg, loop_delay_ms, countdown, image_height, image_width) ==
  FiniteFrames(IF loop_delay_ms > 0 /\ loop_count_arg > 0
                 THEN delay_frame_count(loop_delay_ms) ELSE 0,
               FiniteRange(images, loop_delay_ms, countdown, image_height, image_width,
                           0, loop_count_arg))

\* the frame list create_sequence_from_config builds from a non-empty image list
AssembleFrames(images, loop_count_arg, loop_delay_ms, countdown) ==
  LET image_height == Len(images[1])
      image_width  == Len(images[1][1])
  IN  IF loop_count_arg = -1
      THEN InfiniteLoop(images, loop_delay_ms, countdown, image_height, image_width)
      ELSE FiniteLoop(images, loop_count_arg, loop_delay_ms, countdown,
                      image_height, image_width)

(***************************************************************************)
(* The directories the assembler is run on.  The images of a directory     *)
(* have one shape and pairwise different pixels, none of them a countdown  *)
(* colour; the last image is optionally an all-black one.                  *)
(***************************************************************************)
MaxImages == 3

MaxLoops == 2

\* <<height, width, whether the last image is all black>>
ImageKinds == {<<1, 2, FALSE>>, <<2, 1, FALSE>>, <<1, 2, TRUE>>}

ImageList(n, kind) ==
  [k \in 1..n |-> IF kind[3] /\ k = n THEN SolidFrame(kind[1], kind[2], BLACK)
                  ELSE TestFrame(40, k, kind[1], kind[2])]

ImageLists == {ImageList(n, kind) : n \in 0..MaxImages, kind \in ImageKinds}

\* config.json's "loop": -1 is the infinite sentinel
LoopCounts == (-2)..MaxLoops

\* config.json's "loopDelay", milliseconds
LoopDelays == {0, 600, 750, 1000}

VARIABLES
  cpc,           \* codec run: "input", "saved", "failed", or "off"
  rgb_matrices,  \* bin_maker's frames argument
  fps,           \* bin_maker's fps argument
  clock,         \* what time.time() returns during the run
  bin_data,      \* what add_metadata returned or raised
  file,          \* the output path: [exists, data]
  header,        \* what the last read_bin_header returned or raised
  frame_index,   \* the index of the last safe_read_frame_data call
  frame,         \* what that call returned or raised
  report,        \* what test_bin_file printed about the file, once it has run
  spc,           \* assembler run: "config", "no images", "saved", "raised", or "off"
  image_sequences,   \* the directory's images as matrices, in sorted order
  loop_count,        \* config.get('loop', -1)
  loop_delay_ms,     \* config.get('loopDelay', 1000)
  countdown_enabled, \* config.get('countDown', True)
  delay_frames,  \* delay_frames_per_loop / delay_frames, 0 when never computed
  frames,        \* the list handed to bin_maker
  loops_needed,  \* the infinite branch's loops_needed, -1 elsewhere
  looped_frames, \* len(frames) when the loop over the iterations ends
  seq_fps,       \* the fps handed to bin_maker, -1 before
  seq_saved,     \* whether bin_maker wrote the output path
  image_files,   \* how many image files main's validate_directory finds, unfiltered
  main_report,   \* what main's create_binary_sequence printed: "none" before
  ppc,           \* player run: "ready", "playing", "finished", "error", or "off"
  video,         \* the bytes of the file play_bin_file is given
  loop,          \* play_bin_file's loop argument
  video_height,  \* the height play_bin_file read from the header, -1 before
  video_width,   \* the width it read, -1 before
  effective_frames,  \* min(total_frames, actual_frames), -1 before
  play_frame_index,  \* play_bin_file's frame_index
  paused,        \* play_bin_file's paused
  window,        \* what the window shows: [index, image] of the last imshow
  shown,         \* the index the last pass of the main loop gave to imshow, -1 if none
  key,           \* the key the last pass of the main loop got from waitKey
  probe,         \* a call of read_frame_data by itself: [index, frame]
  rainbow_pc,    \* create_rainbow_frames: "while", "for", "returned", or "off"
  rainbow_steps,         \* its steps argument
  rainbow_off_frames,    \* off_frames = int(off_seconds * fps)
  rainbow_total_frames,  \* total_frames = int(total_duration * fps)
  rainbow_i,             \* how many colours the for loop has taken
  rainbow_frame_index,   \* frame_index
  rainbow_frames         \* frames, a colour's index for a colour frame and -1 for an OFF frame

codecVars == <<cpc, rgb_matrices, fps, clock, bin_data, file, header, frame_index, frame,
               report>>

seqVars == <<spc, image_sequences, loop_count, loop_delay_ms, countdown_enabled,
             delay_frames, frames, loops_needed, looped_frames, seq_fps, seq_saved,
             image_files, main_report>>

playVars == <<ppc, video, loop, video_height, video_width, effective_frames,
              play_frame_index, paused, window, shown, key, probe>>

rainbowVars == <<rainbow_pc, rainbow_steps, rainbow_off_frames, rainbow_total_frames,
                 rainbow_i, rainbow_frame_index, rainbow_frames>>

toolVars == <<playVars, rainbowVars>>

vars == <<codecVars, seqVars, toolVars>>

NotCalled == [err |-> "not called", val |-> <<>>]

NoFile == [exists |-> FALSE, data |-> <<>>]

NotRun == [error |-> "not run"]

CodecIdle ==
  /\ cpc = "off"
  /\ rgb_matrices = <<>>
  /\ fps = <<>>
  /\ clock = <<>>
  /\ bin_data = NotCalled
  /\ file = NoFile
  /\ header = NotCalled
  /\ frame_index = -1
  /\ frame = NotCalled
  /\ report = NotRun

SeqIdle ==
  /\ spc = "off"
  /\ image_sequences = <<>>
  /\ loop_count = -1
  /\ loop_delay_ms = 0
  /\ countdown_enabled = FALSE
  /\ delay_frames = 0
  /\ frames = <<>>
  /\ loops_needed = -1
  /\ looped_frames = 0
  /\ seq_fps = -1
  /\ seq_saved = FALSE
  /\ image_files = 0
  /\ main_report = "none"

NoWindow == [index |-> -1, image |-> <<>>]

NoProbe == [index |-> -1, frame |-> NotCalled]

PlayIdle ==
  /\ ppc = "off"
  /\ video = <<>>
  /\ loop = TRUE
  /\ video_height = -1
  /\ video_width = -1
  /\ effective_frames = -1
  /\ play_frame_index = 0
  /\ paused = FALSE
  /\ window = NoWindow
  /\ shown = -1
  /\ key = "none"
  /\ probe = NoProbe

RainbowIdle ==
  /\ rainbow_pc = "off"
  /\ rainbow_steps = 0
  /\ rainbow_off_frames = 0
  /\ rainbow_total_frames = 0
  /\ rainbow_i = 0
  /\ rainbow_frame_index = 0
  /\ rainbow_frames = <<>>

ToolsIdle == PlayIdle /\ RainbowIdle

CodecInit ==
  /\ cpc = "input"
  /\ rgb_matrices \in FrameLists
  /\ fps \in FpsValues
  /\ clock \in Clocks
  /\ bin_data = NotCalled
  /\ file = NoFile
  /\ header = NotCalled
  /\ frame_index = -1
  /\ frame = NotCalled
  /\ report = NotRun
  /\ SeqIdle
  /\ ToolsIdle

\* a bin_maker that opens the output file before the data is built
bin_maker_opens_first ==
  /\ cpc = "input"
  /\ bin_data' = add_metadata(rgb_matrices, fps, clock)
  /\ IF bin_data'.err = "none"
       THEN cpc' = "saved" /\ file' = [exists |-> TRUE, data |-> bin_data'.val]
       ELSE cpc' = "failed" /\ file' = [exists |-> TRUE, data |-> <<>>]
  /\ UNCHANGED <<rgb_matrices, fps, clock, header, frame_index, frame, report>>
  /\ UNCHANGED seqVars
  /\ UNCHANGED toolVars

\* bin_maker(frames, output_path, fps): the file is opened for writing only
\* after add_metadata has returned
bin_maker ==
  /\ cpc = "input"
  /\ bin_data' = add_metadata(rgb_matrices, fps, clock)
  /\ IF bin_data'.err = "none"
       THEN cpc' = "saved" /\ file' = [exists |-> TRUE, data |-> bin_data'.val]
       ELSE cpc' = "failed" /\ file' = file
  /\ UNCHANGED <<rgb_matrices, fps, clock, header, frame_index, frame, report>>
  /\ UNCHANGED seqVars
  /\ UNCHANGED toolVars

ReadBinHeader ==
  /\ file.exists
  /\ header' = read_bin_header(file.data)
  /\ UNCHANGED <<cpc, rgb_matrices, fps, clock, bin_data, file, frame_index, frame, report>>
  /\ UNCHANGED seqVars
  /\ UNCHANGED toolVars

\* safe_read_frame_data with the dimensions of the header, as test_bin_file calls it
SafeReadFrameData ==
  /\ file.exists
  /\ header.err = "none"
  /\ \E i \in 0..MaxFrames :
       /\ frame_index' = i
       /\ frame' = safe_read_frame_data(file.data, i, BToInt(header.val[2]),
                                        BToInt(header.val[3]))
  /\ UNCHANGED <<cpc, rgb_matrices, fps, clock, bin_data, file, header, report>>
  /\ UNCHANGED seqVars
  /\ UNCHANGED toolVars

CodecNext == bin_maker \/ ReadBinHeader \/ SafeReadFrameData

SpecCodec == CodecInit /\ [][CodecNext]_vars

(***************************************************************************)
(* Inspection.  The file at the output path is inspected as it was         *)
(* written or after a damage: its end cut off, its last byte changed, or   *)
(* both.  A file is damaged before it is read.                             *)
(***************************************************************************)
\* header fps values of the inspected files; 0 divides total_frames / fps
InspectFps == {BFromInt(0), BFromInt(5)}

InspectInit ==
  /\ cpc = "input"
  /\ rgb_matrices \in FrameLists
  /\ fps \in InspectFps
  /\ clock = BFromInt(1762000000)
  /\ bin_data = NotCalled
  /\ file = NoFile
  /\ header = NotCalled
  /\ frame_index = -1
  /\ frame = NotCalled
  /\ report = NotRun
  /\ SeqIdle
  /\ ToolsIdle

Unread ==
  /\ cpc = "saved"
  /\ file.exists
  /\ header = NotCalled
  /\ frame_index = -1
  /\ report = NotRun

\* the numbers of bytes cut off the end: the last byte, a whole frame, the
\* trailer, the trailer and one byte more, all but 15 bytes
CutSizes ==
  {k \in {1, Len(rgb_matrices[1]) * Len(rgb_matrices[1][1]) * 3, TRAILER_SIZE,
          TRAILER_SIZE + 1, Len(file.data) - (HEADER_SIZE - 1)} :
     k >= 1 /\ k <= Len(file.data)}

\* the write of bin_data did not reach the end of the file
Truncate ==
  /\ Unread
  /\ Len(file.data) = Len(bin_data.val)
  /\ \E k \in CutSizes :
       file' = [file EXCEPT !.data = SubSeq(file.data, 1, Len(file.data) - k)]
  /\ UNCHANGED <<cpc, rgb_matrices, fps, clock, bin_data, header, frame_index, frame, report>>
  /\ UNCHANGED seqVars
  /\ UNCHANGED toolVars

\* the last byte of the file has every bit flipped
CorruptLastByte ==
  /\ Unread
  /\ file.data # <<>>
  /\ file.data[Len(file.data)] = bin_data.val[Len(file.data)]
  /\ file' = [file EXCEPT !.data[Len(file.data)] = 255 - file.data[Len(file.data)]]
  /\ UNCHANGED <<cpc, rgb_matrices, fps, clock, bin_data, header, frame_index, frame, report>>
  /\ UNCHANGED seqVars
  /\ UNCHANGED toolVars

\* test_bin_file(file_path)
TestBinFile ==
  /\ file.exists
  /\ report = NotRun
  /\ report' = test_bin_file(file.data)
  /\ UNCHANGED <<cpc, rgb_matrices, fps, clock, bin_data, file, header, frame_index, frame>>
  /\ UNCHANGED seqVars
  /\ UNCHANGED toolVars

InspectNext ==
  bin_maker \/ Truncate \/ CorruptLastByte \/ ReadBinHeader \/ SafeReadFrameData \/ TestBinFile

SpecInspect == InspectInit /\ [][InspectNext]_vars

\* the image files of the directory before get_image_files_in_directory
\* drops the excluded names ('sample', 'example', ...): the images loaded
\* and, for a directory none of whose images is loaded, the excluded ones
ImageFileCounts(images) == IF images = <<>> THEN {0, 1} ELSE {Len(images)}

SeqInit ==
  /\ spc = "config"
  /\ image_sequences \in ImageLists
  /\ loop_count \in LoopCounts
  /\ loop_delay_ms \in LoopDelays
  /\ countdown_enabled \in BOOLEAN
  /\ delay_frames = 0
  /\ frames = <<>>
  /\ loops_needed = -1
  /\ looped_frames = 0
  /\ seq_fps = -1
  /\ seq_saved = FALSE
  /\ image_files \in ImageFileCounts(image_sequences)
  /\ main_report = "none"
  /\ CodecIdle
  /\ ToolsIdle

\* main's validate_directory: raise FileNotFoundError("No image files found")
\* before create_binary_sequence is called
validate_directory_fails ==
  /\ spc = "config"
  /\ image_files = 0
  /\ spc' = "invalid directory"
  /\ main_report' = "error"
  /\ UNCHANGED <<image_sequences, loop_count, loop_delay_ms, countdown_enabled,
                 delay_frames, frames, loops_needed, looped_frames, seq_fps, seq_saved,
                 image_files>>
  /\ UNCHANGED codecVars
  /\ UNCHANGED toolVars

\* if not image_sequences: print("No images found to process!"); return, to
\* main's create_binary_sequence, which prints that the sequence was created
NoImages ==
  /\ spc = "config"
  /\ image_files > 0
  /\ image_sequences = <<>>
  /\ spc' = "no images"
  /\ main_report' = "created successfully"
  /\ UNCHANGED <<image_sequences, loop_count, loop_delay_ms, countdown_enabled,
                 delay_frames, frames, loops_needed, looped_frames, seq_fps, seq_saved,
                 image_files>>
  /\ UNCHANGED codecVars
  /\ UNCHANGED toolVars

\* create_sequence_from_config on a directory with images: the frames are
\* assembled and handed to bin_maker, whose add_metadata raises ValueError
\* for an empty list before the output path is opened
create_sequence_from_config ==
  /\ spc = "config"
  /\ image_sequences # <<>>
  /\ \E r \in {AssembleFrames(image_sequences, loop_count, loop_delay_ms,
                               countdown_enabled)} :
       /\ delay_frames' = r.delay
       /\ loops_needed' = r.loops
       /\ looped_frames' = r.looped
       /\ frames' = r.frames
       /\ seq_fps' = frames_per_second
       /\ seq_saved' = (r.frames # <<>>)
       /\ spc' = IF r.frames # <<>> THEN "saved" ELSE "raised"
       /\ main_report' = IF r.frames # <<>> THEN "created successfully" ELSE "error"
  /\ UNCHANGED <<image_sequences, loop_count, loop_delay_ms, countdown_enabled, image_files>>
  /\ UNCHANGED codecVars
  /\ UNCHANGED toolVars

SeqNext == validate_directory_fails \/ NoImages \/ create_sequence_from_config

SpecSeq == SeqInit /\ [][SeqNext]_vars

\* config.json's "loopDelay" below zero, which no code path excludes
NegativeLoopDelays == {-1000, -1}

\* the runs on a config.json with a negative loopDelay
SeqInvalidInit ==
  /\ spc = "config"
  /\ image_sequences \in ImageLists
  /\ loop_count \in LoopCounts
  /\ loop_delay_ms \in NegativeLoopDelays
  /\ countdown_enabled \in BOOLEAN
  /\ delay_frames = 0
  /\ frames = <<>>
  /\ loops_needed = -1
  /\ looped_frames = 0
  /\ seq_fps = -1
  /\ seq_saved = FALSE
  /\ image_files \in ImageFileCounts(image_sequences)
  /\ main_report = "none"
  /\ CodecIdle
  /\ ToolsIdle

SpecSeqInvalid == SeqInvalidInit /\ [][SeqNext]_vars

(***************************************************************************)
(* Properties of the codec, under SpecCodec.                               *)
(***************************************************************************)
(* bin_maker on an output path that may hold the file of an earlier run,   *)
(* and on frames with a channel outside 0..255.                            *)
(***************************************************************************)
\* frame lists whose last frame has a channel that bytes() rejects
BadChannelLists ==
  {[l EXCEPT ![Len(l)][1][1][1] = v] : l \in UniformLists, v \in {-1, 256}}

\* the file an earlier run left at output_path
StaleFile ==
  [exists |-> TRUE,
   data   |-> add_metadata(<<TestFrame(7, 1, 1, 1)>>, BFromInt(1), BFromInt(1700000000)).val]

OverwriteInit ==
  /\ cpc = "input"
  /\ rgb_matrices \in FrameLists \cup BadChannelLists
  /\ fps \in InspectFps
  /\ clock \in Clocks
  /\ bin_data = NotCalled
  /\ file \in {NoFile, StaleFile}
  /\ header = NotCalled
  /\ frame_index = -1
  /\ frame = NotCalled
  /\ report = NotRun
  /\ SeqIdle
  /\ ToolsIdle

SpecOverwrite == OverwriteInit /\ [][CodecNext]_vars

(***************************************************************************)
(* play_bin_file, the player.  One action is one pass of its main loop:    *)
(* the frame that is due, if any, then the key waitKey returned.  Whether  *)
(* frame_delay has elapsed and which key was pressed are the pass's        *)
(* inputs.                                                                 *)
(***************************************************************************)
MaxPlayFrames == 3

\* the container of n frames of a shape
PlayVideo(n, shape) ==
  add_metadata([i \in 1..n |-> TestFrame(0, i, shape[1], shape[2])], BFromInt(5),
               BFromInt(1762000000)).val

\* height and width of the videos: frames of 3 and of 12 bytes, shorter than
\* the trailer, and of 18 bytes, longer than it
PlayShapes == {<<1, 1>>, <<2, 2>>, <<2, 3>>}

\* whole containers, and containers whose last frame_size bytes are missing
Videos ==
  {PlayVideo(n, d) : n \in 1..MaxPlayFrames, d \in PlayShapes}
    \cup {SubSeq(PlayVideo(n, d), 1, Len(PlayVideo(n, d)) - d[1] * d[2] * 3) :
            n \in 1..MaxPlayFrames, d \in PlayShapes}

\* ord('q'), ord(' '), ord('r'), ord('s'), and 255 for no key
Keys == {"none", "q", "space", "r", "s"}

PlayInit ==
  /\ ppc = "ready"
  /\ video \in Videos
  /\ loop \in BOOLEAN
  /\ video_height = -1
  /\ video_width = -1
  /\ effective_frames = -1
  /\ play_frame_index = 0
  /\ paused = FALSE
  /\ window = NoWindow
  /\ shown = -1
  /\ key = "none"
  /\ probe = NoProbe
  /\ CodecIdle
  /\ SeqIdle
  /\ RainbowIdle

\* total_frames, height, width, fps = read_bin_header(file_path)
VideoHeader == read_bin_header(video)

VideoHeight == BToInt(VideoHeader.val[2])

VideoWidth == BToInt(VideoHeader.val[3])

\* the player up to its main loop
PlayStart ==
  /\ ppc = "ready"
  /\ IF VideoHeader.err # "none"
     THEN ppc' = "error" /\ UNCHANGED <<video_height, video_width, effective_frames>>
     ELSE /\ video_height' = VideoHeight
          /\ video_width' = VideoWidth
          /\ IF VideoHeight * VideoWidth * 3 = 0
             THEN ppc' = "error" /\ UNCHANGED effective_frames
             ELSE /\ ppc' = "playing"
                  /\ effective_frames' =
                       Min(BToInt(VideoHeader.val[1]),
                           (Len(video) - 32) \div (VideoHeight * VideoWidth * 3))
  /\ play_frame_index' = 0
  /\ paused' = FALSE
  /\ UNCHANGED <<video, loop, window, shown, key, probe>>
  /\ UNCHANGED <<codecVars, seqVars, rainbowVars>>

\* the pass's first half: the frame at frame_index is read and shown when it
\* is due, and frame_index moves on.  st is the pass's state so far.
Tick(st, elapsed) ==
  IF ~Due(st.paused, elapsed) THEN st
  ELSE
    LET got == read_frame_data(video, st.index, video_height, video_width)
    IN  IF got.err # "none" THEN [st EXCEPT !.pc = "error"]
        ELSE IF got = ReturnNone
        THEN IF loop THEN [st EXCEPT !.index = 0, !.pc = "continue"]
             ELSE [st EXCEPT !.pc = "finished"]
        ELSE IF effective_frames = 0
        THEN [st EXCEPT !.window = [index |-> st.index, image |-> got.val],
                        !.shown = st.index, !.pc = "error"]
        ELSE [st EXCEPT !.window = [index |-> st.index, image |-> got.val],
                        !.shown = st.index,
                        !.index = NextIndex(st.index, effective_frames)]

\* 's' while paused: frame_index moves on, then that frame is read and shown
StepFrame(st) ==
  IF effective_frames = 0 THEN [st EXCEPT !.pc = "error"]
  ELSE
    LET index == NextIndex(st.index, effective_frames)
        got   == read_frame_data(video, index, video_height, video_width)
    IN  IF got.err # "none" THEN [st EXCEPT !.index = index, !.pc = "error"]
        ELSE IF got = ReturnNone THEN [st EXCEPT !.index = index]
        ELSE [st EXCEPT !.index = index, !.shown = index,
                        !.window = [index |-> index, image |-> got.val]]

\* the pass's second half: the key, unless the first half left the pass
HandleKey(st, pressed) ==
  IF st.pc # "playing" THEN [st EXCEPT !.key = "none"]
  ELSE IF pressed = "q" THEN [st EXCEPT !.key = pressed, !.pc = "finished"]
  ELSE IF pressed = "space" THEN [st EXCEPT !.key = pressed, !.paused = ~st.paused]
  ELSE IF pressed = "r" THEN [st EXCEPT !.key = pressed, !.index = 0]
  ELSE IF pressed = "s" /\ st.paused THEN StepFrame([st EXCEPT !.key = pressed])
  ELSE [st EXCEPT !.key = pressed]

\* one pass of "while True"
Iteration(elapsed, pressed) ==
  /\ ppc = "playing"
  /\ LET st == HandleKey(Tick([pc |-> "playing", index |-> play_frame_index,
                               paused |-> paused, window |-> window, shown |-> -1,
                               key |-> "none"], elapsed), pressed)
     IN  /\ ppc' = IF st.pc = "continue" THEN "playing" ELSE st.pc
         /\ play_frame_index' = st.index
         /\ paused' = st.paused
         /\ window' = st.window
         /\ shown' = st.shown
         /\ key' = st.key
  /\ UNCHANGED <<video, loop, video_height, video_width, effective_frames, probe>>
  /\ UNCHANGED <<codecVars, seqVars, rainbowVars>>

MainLoop == \E elapsed \in BOOLEAN, pressed \in Keys : Iteration(elapsed, pressed)

\* read_frame_data called by itself with the header's dimensions
ReadFrameData ==
  /\ ppc = "ready"
  /\ VideoHeader.err = "none"
  /\ \E i \in 0..(MaxPlayFrames + 1) :
       probe' = [index |-> i,
                 frame |-> read_frame_data(video, i, VideoHeight, VideoWidth)]
  /\ UNCHANGED <<ppc, video, loop, video_height, video_width, effective_frames,
                 play_frame_index, paused, window, shown, key>>
  /\ UNCHANGED <<codecVars, seqVars, rainbowVars>>

PlayNext == PlayStart \/ MainLoop \/ ReadFrameData

SpecPlay == PlayInit /\ [][PlayNext]_vars


(***************************************************************************)
(* create_rainbow_frames, the rainbow generator.  A frame of the list is   *)
(* kept as the index of its colour in rainbow_colors, and as -1 when it is *)
(* an OFF frame; rainbow_colors has steps colours.                         *)
(***************************************************************************)
MaxSteps == 11

MaxOffFrames == 2

MaxTotalFrames == 13

RainbowInit ==
  /\ rainbow_pc = "while"
  /\ rainbow_steps \in 0..MaxSteps
  /\ rainbow_off_frames \in 0..MaxOffFrames
  /\ rainbow_total_frames \in 0..MaxTotalFrames
  /\ rainbow_i = 0
  /\ rainbow_frame_index = 0
  /\ rainbow_frames = <<>>
  /\ CodecIdle
  /\ SeqIdle
  /\ PlayIdle

\* while frame_index < total_frames: the for loop is entered, or the function
\* returns frames[:total_frames]
RainbowWhile ==
  /\ rainbow_pc = "while"
  /\ IF rainbow_frame_index < rainbow_total_frames
       THEN /\ rainbow_pc' = "for"
            /\ rainbow_i' = 0
            /\ UNCHANGED rainbow_frames
       ELSE /\ rainbow_pc' = "returned"
            /\ rainbow_frames' =
                 SubSeq(rainbow_frames, 1, Min(rainbow_total_frames, Len(rainbow_frames)))
            /\ UNCHANGED rainbow_i
  /\ UNCHANGED <<rainbow_steps, rainbow_off_frames, rainbow_total_frames,
                 rainbow_frame_index>>
  /\ UNCHANGED <<codecVars, seqVars, playVars>>

\* one pass of "for i, (r, g, b) in enumerate(rainbow_colors)": the loop is
\* over when the colours are used up or at the break; else the colour frame
\* is appended and, after every tenth colour, the OFF frames
RainbowFor ==
  /\ rainbow_pc = "for"
  /\ IF rainbow_i >= rainbow_steps \/ rainbow_frame_index >= rainbow_total_frames
       THEN /\ rainbow_pc' = "while"
            /\ UNCHANGED <<rainbow_i, rainbow_frame_index, rainbow_frames>>
       ELSE LET off == IF (rainbow_i + 1) % 10 = 0 /\ rainbow_off_frames > 0
                         THEN Min(rainbow_off_frames,
                                  rainbow_total_frames - (rainbow_frame_index + 1))
                         ELSE 0
            IN  /\ rainbow_frames' = Append(rainbow_frames, rainbow_i) \o [k \in 1..off |-> -1]
                /\ rainbow_frame_index' = rainbow_frame_index + 1 + off
                /\ rainbow_i' = rainbow_i + 1
                /\ UNCHANGED rainbow_pc
  /\ UNCHANGED <<rainbow_steps, rainbow_off_frames, rainbow_total_frames>>
  /\ UNCHANGED <<codecVars, seqVars, playVars>>

RainbowNext == RainbowWhile \/ RainbowFor

\* the function is sequential code: its next statement is always executed
SpecRainbow == RainbowInit /\ [][RainbowNext]_vars /\ WF_vars(RainbowNext)

(***************************************************************************)
FrameCount == Len(rgb_matrices)

\* the fields of the first and the last 16 bytes of a container
HeaderField(data, k) == UnpackLE(SubSeq(data, 4 * k - 3, 4 * k))

TrailerTotalFrames(data) == UnpackLE(SubSeq(data, Len(data) - 15, Len(data) - 12))

TrailerEndMarker(data) == UnpackLE(SubSeq(data, Len(data) - 3, Len(data)))

\* C1. Round trip: a non-empty list of frames of one shape, channels in
\* 0..255, and an fps in 1..2^32-1 are written; read_bin_header then gives
\* (len(frames), height, width, fps) and safe_read_frame_data(i, height, width)
\* gives frames[i], pixel for pixel, for every i below len(frames).
C1_RoundTrip ==
  (cpc # "input" /\ rgb_matrices # <<>> /\ SameShape(rgb_matrices)) =>
    /\ cpc = "saved"
    /\ header.err # "not called" =>
         header = Return(<<BFromInt(FrameCount), BFromInt(Len(rgb_matrices[1])),
                           BFromInt(Len(rgb_matrices[1][1])), fps>>)
    /\ frame_index \in 0..(FrameCount - 1) => frame = Return(rgb_matrices[frame_index + 1])

\* the last of several 2-row frames read back, written with fps = 2^32 - 1
C1_Witness ==
  /\ cpc = "saved"
  /\ SameShape(rgb_matrices)
  /\ FrameCount >= 2
  /\ Len(rgb_matrices[1]) >= 2
  /\ fps = U32_MAX
  /\ header.err = "none"
  /\ BToInt(header.val[1]) = FrameCount
  /\ frame_index = FrameCount - 1
  /\ frame.err = "none"
  /\ frame.val = rgb_matrices[FrameCount]

\* C2. Size invariant: every byte string add_metadata returns has length
\* 16 + total_frames * height * width * 3 + 16, with total_frames, height and
\* width the values written in its header.
C2_SizeInvariant ==
  bin_data.err = "none" =>
    Len(bin_data.val) =
      16 + BToInt(HeaderField(bin_data.val, 1)) * BToInt(HeaderField(bin_data.val, 2))
             * BToInt(HeaderField(bin_data.val, 3)) * 3 + 16

\* where frame i (from 0) starts: after the header and the frames before it
RECURSIVE FrameStart(_, _)
FrameStart(matrices, i) ==
  IF i = 0 THEN 16
  ELSE FrameStart(matrices, i - 1) + Len(matrices[i]) * Len(matrices[i][1]) * 3

\* C3. Frame byte layout: channel c (0 = R, 1 = G, 2 = B) of pixel (row y,
\* column x) of frame i is the byte at offset
\* 16 + i * height * width * 3 + (y * width + x) * 3 + c: the frames follow the
\* header in list order, each row-major, R then G then B.  The start of frame
\* i is written as the sum of the sizes of the frames before it, which is
\* i * height * width * 3 for frames of one shape.
C3_FrameByteLayout ==
  bin_data.err = "none" =>
    \A i \in 0..(FrameCount - 1) :
      \A y \in 0..(Len(rgb_matrices[i + 1]) - 1) :
        \A x \in 0..(Len(rgb_matrices[i + 1][y + 1]) - 1) :
          \A c \in 0..2 :
            LET width  == Len(rgb_matrices[i + 1][1])
                offset == FrameStart(rgb_matrices, i) + (y * width + x) * 3 + c
            IN  /\ SameShape(rgb_matrices) =>
                     FrameStart(rgb_matrices, i)
                       = 16 + i * Len(rgb_matrices[1]) * Len(rgb_matrices[1][1]) * 3
                /\ offset < Len(bin_data.val)
                /\ bin_data.val[offset + 1] = rgb_matrices[i + 1][y + 1][x + 1][c + 1]

\* a container of several frames of 2 rows and 2 columns with the blue
\* channel of the last pixel of the last frame in its place
C3_Witness ==
  /\ bin_data.err = "none"
  /\ FrameCount >= 2
  /\ SameShape(rgb_matrices)
  /\ Len(rgb_matrices[1]) = 2
  /\ Len(rgb_matrices[1][1]) = 2
  /\ bin_data.val[16 + (FrameCount - 1) * 12 + (1 * 2 + 1) * 3 + 2 + 1]
       = rgb_matrices[FrameCount][2][2][3]

\* C4. Header/trailer agreement: in every output of add_metadata the
\* trailer's total_frames equals the header's, both equal len(frames), and
\* the trailer's end_marker is 0xDEADBEEF.
C4_HeaderTrailerAgree ==
  bin_data.err = "none" =>
    /\ TrailerTotalFrames(bin_data.val) = HeaderField(bin_data.val, 1)
    /\ HeaderField(bin_data.val, 1) = BFromInt(FrameCount)
    /\ TrailerEndMarker(bin_data.val) = END_MARKER

\* a container of several frames whose last four bytes are EF BE AD DE
C4_Witness ==
  /\ bin_data.err = "none"
  /\ FrameCount >= 2
  /\ SubSeq(bin_data.val, Len(bin_data.val) - 3, Len(bin_data.val)) = <<239, 190, 173, 222>>
  /\ TrailerTotalFrames(bin_data.val) = BFromInt(FrameCount)

(***************************************************************************)
(* Properties of the assembler, under SpecSeq.                             *)
(***************************************************************************)
BaseLen == Len(image_sequences)

\* C, the countdown frames of one iteration
CountdownLen == IF countdown_enabled THEN 4 * frames_per_second ELSE 0

\* D, the delay frames the code computes for one iteration
DelayLen == delay_frames

FramesPerLoop == CountdownLen + BaseLen + DelayLen

IsBlackFrame(f) == \A y \in 1..Len(f) : \A x \in 1..Len(f[y]) : f[y][x] = BLACK

BlackImage == SolidFrame(Len(image_sequences[1]), Len(image_sequences[1][1]), BLACK)

\* the j-th frame (from 1) of a countdown: fps red, fps yellow, fps green, fps black
CountdownFrame(j) ==
  SolidFrame(Len(image_sequences[1]), Len(image_sequences[1][1]),
             <<RED, YELLOW, GREEN, BLACK>>[((j - 1) \div frames_per_second) + 1])

\* C5. Exact infinite-loop length: for a base of L >= 1 images, any
\* loop_delay_ms >= 0 and either countdown setting, the branch loop = -1 hands
\* bin_maker exactly 3600 * fps frames (fps = 5: 18000 frames).
C5_ExactInfiniteLength ==
  (spc = "saved" /\ loop_count = -1) =>
    /\ seq_fps = 5
    /\ Len(frames) = 3600 * seq_fps

\* C6. Delay omitted after the last finite iteration: for a loop count
\* N >= 1 and D > 0 delay frames, the sequence has N * (C + L) + (N - 1) * D
\* frames and, the last image being non-black, its final D frames are not
\* all black.
C6_DelayOmittedAfterLast ==
  (spc = "saved" /\ loop_count >= 1 /\ DelayLen > 0) =>
    /\ Len(frames) = loop_count * (CountdownLen + BaseLen) + (loop_count - 1) * DelayLen
    /\ ~IsBlackFrame(image_sequences[BaseLen]) =>
         \E i \in (Len(frames) - DelayLen + 1)..Len(frames) : ~IsBlackFrame(frames[i])

\* C7. Infinite-loop structure: the branch loop = -1 emits exactly
\* floor(3600 * fps / frames_per_loop) iterations, frames_per_loop = C + L + D,
\* each the countdown then the images in order, with the D black frames
\* after every iteration but the last.
C7_InfiniteStructure ==
  (spc = "saved" /\ loop_count = -1) =>
    LET n == (total_duration * frames_per_second) \div FramesPerLoop
    IN  /\ loops_needed = n
        /\ looped_frames = n * FramesPerLoop - DelayLen
        /\ \A idx \in 0..(n - 1) :
             /\ \A j \in 1..CountdownLen :
                  frames[idx * FramesPerLoop + j] = CountdownFrame(j)
             /\ \A j \in 1..BaseLen :
                  frames[idx * FramesPerLoop + CountdownLen + j] = image_sequences[j]
             /\ idx < n - 1 =>
                  \A j \in 1..DelayLen :
                    frames[idx * FramesPerLoop + CountdownLen + BaseLen + j] = BlackImage

\* C8. Infinite-loop padding uses only base frames: the k-th frame
\* (k = 0, 1, ...) appended after the last iteration is image k mod L.
C8_PaddingOnlyBase ==
  (spc = "saved" /\ loop_count = -1) =>
    \A k \in 0..(Len(frames) - looped_frames - 1) :
      frames[looped_frames + k + 1] = image_sequences[(k % BaseLen) + 1]

\* a padding longer than the image list, after iterations that end with a
\* countdown and are separated by delay frames; the padding wraps
C8_Witness ==
  /\ spc = "saved"
  /\ loop_count = -1
  /\ countdown_enabled
  /\ DelayLen > 0
  /\ BaseLen >= 2
  /\ Len(frames) - looped_frames > BaseLen
  /\ frames[looped_frames + BaseLen + 1] = image_sequences[1]
  /\ frames[looped_frames + BaseLen + 1] # frames[looped_frames + BaseLen]

\* round(loop_delay_ms / 1000 * fps); no delay of the model is a tie
DelayRounded == (loop_delay_ms * 5 + 500) \div 1000

\* the frames after the images of the first iteration, up to the next
\* iteration, when there is one
FirstDelayBlock(d) ==
  /\ \A j \in 1..d : frames[CountdownLen + BaseLen + j] = BlackImage
  /\ Len(frames) > CountdownLen + BaseLen + d =>
       frames[CountdownLen + BaseLen + d + 1]
         = (IF countdown_enabled THEN CountdownFrame(1) ELSE image_sequences[1])

\* the frames the iterations take, for d delay frames: finite, N iterations
\* each followed by its delay; infinite, the delay after all but the last
LoopedWithDelay(d) ==
  IF loop_count = -1
  THEN looped_frames = loops_needed * (CountdownLen + BaseLen) + (loops_needed - 1) * d
  ELSE Len(frames) = loop_count * (CountdownLen + BaseLen + d)

\* C9 as stated. Delay block length rounds to nearest: the black frames
\* per iteration are round(loop_delay_ms / 1000 * fps) in both branches
\* (750 ms gives 4 frames).
C9_DelayRounded ==
  (spc = "saved" /\ (loop_count >= 2 \/ (loop_count = -1 /\ loops_needed >= 2))) =>
    /\ LoopedWithDelay(DelayRounded)
    /\ FirstDelayBlock(DelayRounded)

\* the delay lengths that truncation allows: floor(ms / 200), or one fewer
\* when ms is a multiple of 200 whose float quotient falls below the integer
TruncatedDelays ==
  IF loop_delay_ms % 200 = 0
  THEN {d \in {loop_delay_ms \div 200 - 1, loop_delay_ms \div 200} : d >= 0}
  ELSE {loop_delay_ms \div 200}

\* C9 as amended. The black frames per iteration are the float quotient
\* (loop_delay_ms / 1000) / 0.2 truncated toward zero, in both branches:
\* floor(loop_delay_ms / 200), or one fewer for a multiple of 200 ms whose
\* float quotient falls just below the integer; 750 ms gives 3 frames.
C9_DelayTruncated ==
  (spc = "saved" /\ (loop_count >= 2 \/ (loop_count = -1 /\ loops_needed >= 2))) =>
    /\ \E d \in TruncatedDelays : LoopedWithDelay(d) /\ FirstDelayBlock(d)
    /\ loop_delay_ms = 750 => LoopedWithDelay(3)
    /\ loop_delay_ms = 1000 => LoopedWithDelay(5)

\* 750 ms between two finite iterations: three black frames, then the
\* second iteration
C9_Witness ==
  /\ spc = "saved"
  /\ loop_count = 2
  /\ loop_delay_ms = 750
  /\ ~countdown_enabled
  /\ Len(frames) = 2 * (BaseLen + 3)
  /\ frames[BaseLen + 3] = BlackImage
  /\ frames[BaseLen + 4] = image_sequences[1]
  /\ ~IsBlackFrame(image_sequences[1])

\* the iterations of the loop
Iterations == IF loop_count = -1 THEN loops_needed ELSE loop_count

\* C10. Countdown content on every iteration: with the countdown enabled,
\* every iteration (finite and infinite, the last included) starts with
\* 4 * fps frames: fps solid (255,0,0), fps (255,255,0), fps (0,255,0), fps
\* (0,0,0), of the images' height and width; disabled, no such frame is
\* emitted: every iteration starts with the first image and every frame is
\* an image or a black delay frame.
C10_CountdownContent ==
  spc = "saved" =>
    IF countdown_enabled
    THEN \A idx \in 0..(Iterations - 1) :
           /\ \A j \in 1..(4 * seq_fps) :
                frames[idx * FramesPerLoop + j] = CountdownFrame(j)
           /\ frames[idx * FramesPerLoop + 4 * seq_fps + 1] = image_sequences[1]
    ELSE /\ \A idx \in 0..(Iterations - 1) :
              frames[idx * FramesPerLoop + 1] = image_sequences[1]
         /\ \A i \in 1..Len(frames) :
              frames[i] = BlackImage \/ \E k \in 1..BaseLen : frames[i] = image_sequences[k]

\* the last of several infinite-mode iterations, after a delay block,
\* starts with a red frame of 2 rows and 1 column and ends its countdown black
C10_Witness ==
  /\ spc = "saved"
  /\ loop_count = -1
  /\ countdown_enabled
  /\ DelayLen > 0
  /\ loops_needed >= 2
  /\ Len(image_sequences[1]) = 2
  /\ frames[(loops_needed - 1) * FramesPerLoop] = BlackImage
  /\ frames[(loops_needed - 1) * FramesPerLoop + 1] = <<<<RED>>, <<RED>>>>
  /\ frames[(loops_needed - 1) * FramesPerLoop + 20] = <<<<BLACK>>, <<BLACK>>>>

\* C11. Finite-loop frame count: for a loop count N >= 1, the countdown
\* disabled and loop_delay_ms = 0, the sequence has exactly N * L frames and
\* is the L images repeated N times in order.
C11_FiniteFrameCount ==
  (spc = "saved" /\ loop_count >= 1 /\ ~countdown_enabled /\ loop_delay_ms = 0) =>
    /\ Len(frames) = loop_count * BaseLen
    /\ \A i \in 1..Len(frames) : frames[i] = image_sequences[((i - 1) % BaseLen) + 1]

\* two passes over three images: the fourth frame is the first image again
C11_Witness ==
  /\ spc = "saved"
  /\ loop_count = 2
  /\ ~countdown_enabled
  /\ loop_delay_ms = 0
  /\ BaseLen = 3
  /\ Len(frames) = 6
  /\ frames[4] = image_sequences[1]
  /\ frames[6] = image_sequences[3]
  /\ frames[3] # frames[4]

\* C12. Encode rejects empty input: add_metadata called with an empty frame
\* list fails with an error (ValueError, "No frame data provided.") and
\* returns no bytes; bin_maker then writes no file.
C12_RejectsEmpty ==
  (cpc # "input" /\ rgb_matrices = <<>>) =>
    /\ bin_data = Raise("ValueError")
    /\ cpc = "failed"
    /\ ~file.exists

\* bin_maker has run on an empty list of frames and add_metadata has raised
C12_Witness ==
  /\ cpc = "failed"
  /\ rgb_matrices = <<>>
  /\ bin_data.err = "ValueError"
  /\ bin_data.val = <<>>
  /\ file = NoFile

\* C13. Encode rejects mixed dimensions: add_metadata called with a frame
\* list in which some frame's height or width differs from the first
\* frame's fails with an error instead of returning a container.
C13_RejectsMixed ==
  (cpc # "input" /\ rgb_matrices # <<>> /\ ~SameShape(rgb_matrices)) =>
    /\ bin_data.err # "none"
    /\ ~file.exists

(***************************************************************************)
(* Properties of the readers and of test_bin_file, under SpecInspect.      *)
(***************************************************************************)
\* the header's height, width and frame count, once read_bin_header returned
HeaderHeight == BToInt(header.val[2])

HeaderWidth == BToInt(header.val[3])

HeaderFrames == BToInt(header.val[1])

HeaderFrameSize == HeaderHeight * HeaderWidth * 3

\* min(header.total_frames, floor((file_size - 32) / frame_size))
EffectiveFrames == Min(HeaderFrames, (Len(file.data) - 32) \div HeaderFrameSize)

Undamaged == file.exists /\ file.data = bin_data.val

C15_EffectiveSafe ==
  (/\ frame_index >= 0
   /\ Len(file.data) >= 32
   /\ HeaderHeight >= 1
   /\ HeaderWidth >= 1
   /\ frame_index < EffectiveFrames) => frame.err = "none"

\* a file that lost its last frame: the last index below the effective
\* count, whose frame ends where the trailer's 16 bytes start, is read
C15_Witness ==
  /\ frame_index >= 0
  /\ file.exists
  /\ Len(file.data) >= 32
  /\ Len(file.data) = Len(bin_data.val) - HeaderFrameSize
  /\ EffectiveFrames >= 1
  /\ EffectiveFrames < HeaderFrames
  /\ frame_index = EffectiveFrames - 1
  /\ 16 + (frame_index + 1) * HeaderFrameSize = Len(file.data) - 16
  /\ frame.err = "none"

\* a container add_metadata returned for frames of one shape and an fps > 0
ValidContainer ==
  /\ bin_data.err = "none"
  /\ SameShape(rgb_matrices)
  /\ fps # BFromInt(0)

Ran == report # NotRun

\* C16. Truncation is detected as a size mismatch: for a valid container
\* produced by add_metadata, removing its last byte makes test_bin_file
\* report that the expected size 16 + total_frames * height * width * 3 + 16
\* does not match the actual file size.
C16_TruncationDetected ==
  (/\ Ran
   /\ ValidContainer
   /\ file.data = SubSeq(bin_data.val, 1, Len(bin_data.val) - 1)) =>
    report.size_match = "no"

\* test_bin_file has run on a container of two 2x2 frames short of its last
\* byte, and printed the size check before the trailer could not be read
C16_Witness ==
  /\ Ran
  /\ ValidContainer
  /\ FrameCount = 2
  /\ Len(bin_data.val) = 56
  /\ Len(file.data) = 55
  /\ file.data = SubSeq(bin_data.val, 1, 55)
  /\ report.size_match = "no"
  /\ report.error = "ValueError"

\* the file is the container with only its last byte changed
LastByteChanged ==
  /\ Len(file.data) = Len(bin_data.val)
  /\ file.data[Len(file.data)] # bin_data.val[Len(file.data)]
  /\ SubSeq(file.data, 1, Len(file.data) - 1) = SubSeq(bin_data.val, 1, Len(file.data) - 1)

\* C17. End-marker corruption is detected independently of size: for a
\* valid container, changing only the last byte of the file makes
\* test_bin_file report the end marker as invalid while the size check and
\* the header/trailer frame-count check still report a match.
C17_MarkerCorruptionDetected ==
  (Ran /\ ValidContainer /\ LastByteChanged) =>
    /\ report.marker_valid = "no"
    /\ report.size_match = "yes"
    /\ report.frames_match = "yes"

\* test_bin_file has run to its verdict on a container of two frames whose
\* last byte is 0x21 instead of 0xDE
C17_Witness ==
  /\ Ran
  /\ ValidContainer
  /\ LastByteChanged
  /\ FrameCount = 2
  /\ file.data[Len(file.data)] = 33
  /\ report.error = "none"
  /\ report.marker_valid = "no"
  /\ report.size_match = "yes"
  /\ report.verdict = "no"
  /\ report.saved = {0, 1}

\* C18. Validation is not fail-fast: for every input of at least 16 bytes
\* test_bin_file reports all three checks (size match, header/trailer
\* frame-count match, end marker), each with its own result, even when an
\* earlier check fails.
C18_NotFailFast ==
  (Ran /\ Len(file.data) >= 16) =>
    /\ report.size_match \in {"yes", "no"}
    /\ report.frames_match \in {"yes", "no"}
    /\ report.marker_valid \in {"yes", "no"}

\* C19. Inspection tolerates a truncated container: when the file holds
\* fewer complete frames than the header's total_frames declares,
\* test_bin_file does not abort and extracts every sampled frame whose
\* index is below min(total_frames, floor((file_size - 32) / frame_size)).
C19_ToleratesTruncation ==
  (/\ Ran
   /\ ValidContainer
   /\ Len(file.data) >= 32
   /\ (Len(file.data) - 32) \div (Len(rgb_matrices[1]) * Len(rgb_matrices[1][1]) * 3)
        < FrameCount) =>
    /\ report.error = "none"
    /\ report.saved =
         {idx \in SampleIndices :
            idx < Min(FrameCount, (Len(file.data) - 32)
                        \div (Len(rgb_matrices[1]) * Len(rgb_matrices[1][1]) * 3))}

\* C20. Empty base is a user-facing error: when no image is left after the
\* filter, create_sequence_from_config writes no container file and main's
\* create_binary_sequence surfaces an error rather than reporting that the
\* binary sequence was created successfully.
C20_EmptyBaseIsError ==
  spc = "no images" =>
    /\ ~seq_saved
    /\ main_report = "error"

\* C21. Negative loop delay is rejected: assembling a sequence with
\* loop_delay_ms < 0 fails with an error that is surfaced to the caller; it
\* is not silently treated as a zero delay.
C21_NegativeDelayRejected ==
  (spc \in {"saved", "raised"} /\ loop_delay_ms < 0) =>
    /\ spc = "raised"
    /\ ~seq_saved
    /\ main_report = "error"

\* C29. Non-positive finite loop count produces no file: for a non-empty
\* image list and a loop count N <= 0 other than -1,
\* create_sequence_from_config assembles zero frames, add_metadata raises for
\* the empty list, the error reaches the caller and no file is written.
C29_NoFileForNonPositiveLoop ==
  (/\ spc \in {"saved", "raised"}
   /\ image_sequences # <<>>
   /\ loop_count <= 0
   /\ loop_count # -1) =>
    /\ frames = <<>>
    /\ add_metadata(frames, BFromInt(seq_fps), BFromInt(0)) = Raise("ValueError")
    /\ spc = "raised"
    /\ ~seq_saved
    /\ main_report = "error"

\* three images, loop = 0, the countdown enabled and a delay configured:
\* nothing is assembled and the run ends with the error
C29_Witness ==
  /\ spc = "raised"
  /\ BaseLen = 3
  /\ loop_count = 0
  /\ countdown_enabled
  /\ loop_delay_ms = 1000
  /\ frames = <<>>
  /\ ~seq_saved
  /\ main_report = "error"

\* the container add_metadata builds of the same frames and fps at another time
EncodedAt(now) == add_metadata(rgb_matrices, fps, now)

\* the 1-based positions in a container of its save_time, trailer offsets 4..11
SaveTimeBytes(data) == (Len(data) - 11)..(Len(data) - 4)

\* C23. Encode is deterministic up to save_time: two containers built from
\* the same frames and fps are byte-identical except for the 8 save_time
\* bytes at trailer offsets 4..11, and the validation verdict does not depend
\* on those bytes.
C23_DeterministicUpToSaveTime ==
  (Ran /\ Undamaged) =>
    \A now \in Clocks :
      LET other == EncodedAt(now)
      IN  /\ other.err = "none"
          /\ Len(other.val) = Len(bin_data.val)
          /\ \A k \in 1..Len(bin_data.val) :
               k \notin SaveTimeBytes(bin_data.val) => other.val[k] = bin_data.val[k]
          /\ test_bin_file(other.val) = report

\* a container of two frames was validated, and the container of another
\* time differs from it in a save_time byte
C23_Witness ==
  /\ Ran
  /\ Undamaged
  /\ FrameCount = 2
  /\ report.verdict = "yes"
  /\ \E now \in Clocks : \E k \in SaveTimeBytes(bin_data.val) :
       EncodedAt(now).val[k] # bin_data.val[k]

\* C28. No partial output on encode failure: when add_metadata raises (empty
\* frame list, or a channel outside 0..255), bin_maker propagates the error
\* and the output path is neither created nor truncated nor modified.
C28_NoPartialOutput ==
  [][(cpc = "input" /\ cpc' # "input"
        /\ add_metadata(rgb_matrices, fps, clock).err # "none") =>
       /\ cpc' = "failed"
       /\ bin_data' = add_metadata(rgb_matrices, fps, clock)
       /\ file' = file]_vars

\* bin_maker failed on a channel of 256 or -1 and the file of the earlier run
\* is as it was
C28_Witness ==
  /\ cpc = "failed"
  /\ rgb_matrices \in BadChannelLists
  /\ bin_data = Raise("ValueError")
  /\ file = StaleFile

\* the frames the player counts in the file, as it computes effective_frames
PlayableFrames ==
  Min(BToInt(VideoHeader.val[1]), (Len(video) - 32) \div (VideoHeight * VideoWidth * 3))

\* C24. Player index stays in range: on a file with effective_frames >= 1,
\* after any timer ticks and key events, frame_index is in
\* 0..effective_frames-1, so read_frame_data is never asked for a frame at or
\* beyond the effective frame count.
C24_IndexInRange ==
  (ppc \in {"playing", "finished", "error"} /\ PlayableFrames >= 1) =>
    /\ ppc # "error"
    /\ effective_frames = PlayableFrames
    /\ play_frame_index \in 0..(effective_frames - 1)

\* the index has wrapped from the last of three frames to the first, after a
\* step while paused
C24_Witness ==
  /\ ppc = "playing"
  /\ effective_frames = 3
  /\ paused
  /\ key = "s"
  /\ window.index = 0
  /\ play_frame_index = 0

\* the main loop of a player with frames to show is about to make a pass
PassTaken == ppc = "playing" /\ effective_frames >= 1

\* C25. Pause freezes playback: while the player is paused, timer ticks
\* change neither frame_index nor the displayed frame; the only events that
\* change frame_index while paused are 's' (advance by one modulo
\* effective_frames) and 'r' (set to 0); and 's' has no effect when not
\* paused: that pass ends as the pass of the same tick with no key.
C25_PauseFreezes ==
  [][PassTaken =>
       /\ (paused /\ key' \notin {"s", "r"}) =>
            (play_frame_index' = play_frame_index /\ window' = window /\ shown' = -1)
       /\ (paused /\ key' = "s") =>
            play_frame_index' = (play_frame_index + 1) % effective_frames
       /\ (paused /\ key' = "r") =>
            (play_frame_index' = 0 /\ window' = window /\ shown' = -1)
       /\ (~paused /\ key' = "s") =>
            /\ paused' = paused
            /\ \/ play_frame_index' = play_frame_index /\ window' = window /\ shown' = -1
               \/ /\ play_frame_index' = (play_frame_index + 1) % effective_frames
                  /\ window'.index = play_frame_index
                  /\ shown' = play_frame_index]_vars

\* the player is paused after its second frame of three was shown, and a pass
\* on which no key was pressed has gone by
C25_Witness ==
  /\ ppc = "playing"
  /\ effective_frames = 3
  /\ paused
  /\ key = "none"
  /\ window.index = 1
  /\ play_frame_index = 2

\* the frame after the one the window shows
FollowingFrame == (window.index + 1) % effective_frames

\* C26. Step shows the next frame: when the player is paused while displaying
\* frame k, each 's' key press displays the frame that immediately follows
\* the currently displayed one (the first press shows (k+1) mod
\* effective_frames, no frame is skipped), and after a step frame_index is the
\* frame that follows the displayed one, so that playback resumes with it
\* without showing any frame twice.  The passes looked at are those where no
\* restart has moved frame_index away from the displayed frame.
C26_StepShowsNext ==
  [][(/\ PassTaken /\ paused /\ key' = "s" /\ window.index >= 0
      /\ play_frame_index \in {window.index, FollowingFrame}) =>
       /\ shown' = FollowingFrame
       /\ window'.index = FollowingFrame
       /\ play_frame_index' = (window'.index + 1) % effective_frames]_vars

\* C27. Player read past the end yields None: for every container and every
\* frame_index >= floor((file_size - 32) / (height * width * 3)),
\* read_frame_data returns None and never returns trailer bytes as a frame,
\* also when height * width * 3 <= 16.
C27_PastEndIsNone ==
  (probe.index >= 0
     /\ probe.index >= (Len(video) - 32) \div (VideoHeight * VideoWidth * 3)) =>
    probe.frame = ReturnNone

\* C22. No-loop playback ends: with loop = False on a file with
\* effective_frames >= 1, never paused and with no key pressed, once the last
\* available frame has been displayed no pass of the main loop displays a
\* frame again: the pass on which the next frame is due ends the playback.
C22_NoLoopEnds ==
  [][(/\ PassTaken /\ ~loop /\ ~paused /\ key = "none" /\ key' = "none"
      /\ shown = effective_frames - 1) =>
       /\ shown' = -1
       /\ ppc' \in {"playing", "finished"}]_vars

\* C30. The rainbow generator terminates with the exact length: for every
\* steps >= 0, off_frames >= 0 and T = int(total_duration * fps) >= 0,
\* create_rainbow_frames returns, and returns exactly T frames.
C30_RainbowTerminates ==
  <>(rainbow_pc = "returned" /\ Len(rainbow_frames) = rainbow_total_frames)

====
